---------------------------- MODULE Spec2Model ----------------------------
(***************************************************************************)
(* The pension benefit calculation engine of ayofayinminu/PensionCalculator*)
(* as a state machine: the batch calculator                                *)
(* (src/streamlit_batch_pension_calculator_app.py) and the interactive     *)
(* calculator (src/pension_calculator_app.py).                             *)
(*                                                                         *)
(* Numbers.  Python floats are modelled in fixed point: the real x is the  *)
(* integer x * Scale, every product and quotient is rounded to the nearest *)
(* unit of 1/Scale.  `**` is modelled by PowF.  None is the empty          *)
(* sequence <<>> and a value v that may be None is <<v>>.                  *)
(***************************************************************************)
EXTENDS Integers, Sequences, FiniteSets, TLC

VARIABLES
    calculator,     \* batch: the PensionCalculator object (constants, lookup tables)
    df,             \* batch: the uploaded DataFrame, a sequence of rows
    results,        \* batch: process_batch's list `results`
    final_df,       \* batch: the DataFrame process_batch returns
    batch_pc,       \* batch: where process_batch is
    call,           \* a call of a helper function: its arguments and what it returned
    streamlit       \* interactive: what Streamlit keeps between two runs of main: the
                    \* widgets' values, st.session_state, and the page last rendered

vars == <<calculator, df, results, final_df, batch_pc, call, streamlit>>

-----------------------------------------------------------------------------
(* Fixed-point arithmetic *)

Scale == 100 * 1000

Abs(x) == IF x < 0 THEN -x ELSE x

Sgn(x) == IF x < 0 THEN -1 ELSE IF x > 0 THEN 1 ELSE 0

\* <<q, r>> with a * b = q * c + r and 0 <= r < c, for a, b >= 0 and c > 0,
\* without ever forming the product a * b.
RECURSIVE MulDivQR(_, _, _)
MulDivQR(a, b, c) ==
    IF a = 0 THEN <<0, 0>>
    ELSE LET h == MulDivQR(a \div 2, b, c)
             t == 2 * h[2] + (a % 2) * (b % c)
         IN  <<2 * h[1] + (a % 2) * (b \div c) + t \div c, t % c>>

\* a * b / c rounded to the nearest integer, for a, b >= 0 and c > 0.
MulDiv(a, b, c) ==
    LET qr == MulDivQR(a, b, c)
    IN  IF 2 * qr[2] >= c THEN qr[1] + 1 ELSE qr[1]

\* int -> float
ToFloat(n) == n * Scale

\* float * float
FMul(a, b) == Sgn(a) * Sgn(b) * MulDiv(Abs(a), Abs(b), Scale)

\* float / float, b # 0
FDiv(a, b) == Sgn(a) * Sgn(b) * MulDiv(Abs(a), Scale, Abs(b))

\* base ** n for a natural number n, by repeated squaring
RECURSIVE PowInt(_, _)
PowInt(base, n) ==
    IF n = 0 THEN Scale
    ELSE IF n % 2 = 0
         THEN LET h == PowInt(base, n \div 2) IN FMul(h, h)
         ELSE FMul(base, PowInt(base, n - 1))

\* base ** e for e >= 0: the whole part of e by PowInt, the fraction of e by
\* linear interpolation between two consecutive whole powers.
PowPos(base, e) ==
    LET p == PowInt(base, e \div Scale)
    IN  p + FMul(FMul(p, base - Scale), e % Scale)

\* base ** e (Python's float power), base > 0
PowF(base, e) ==
    IF e >= 0 THEN PowPos(base, e) ELSE FDiv(Scale, PowPos(base, -e))

\* round(x, 0): to the nearest whole number, a tie to the even one; a float
Round0(x) ==
    LET a == Abs(x)
        w == a \div Scale
        f == a % Scale
        up == \/ 2 * f > Scale
              \/ 2 * f = Scale /\ w % 2 = 1
    IN  Sgn(x) * (IF up THEN w + 1 ELSE w) * Scale

\* int(x) of a float: truncation towards zero
IntOf(x) == Sgn(x) * (Abs(x) \div Scale)

Max2(a, b) == IF b > a THEN b ELSE a

Min2(a, b) == IF b < a THEN b ELSE a

None == <<>>

Some(v) == <<v>>

-----------------------------------------------------------------------------
(* Calendar dates, and dateutil's relativedelta as datedif and yearfrac use it *)

Date(y, m, d) == [year |-> y, month |-> m, day |-> d]

IsLeap(y) == (y % 4 = 0 /\ y % 100 # 0) \/ y % 400 = 0

DaysInMonth(y, m) ==
    IF m = 2 THEN (IF IsLeap(y) THEN 29 ELSE 28)
    ELSE IF m \in {4, 6, 9, 11} THEN 30 ELSE 31

RECURSIVE DaysBeforeMonth(_, _)
DaysBeforeMonth(y, m) ==
    IF m = 1 THEN 0 ELSE DaysBeforeMonth(y, m - 1) + DaysInMonth(y, m - 1)

\* date.toordinal()
Ordinal(dt) ==
    LET p == dt.year - 1
    IN  p * 365 + p \div 4 - p \div 100 + p \div 400
        + DaysBeforeMonth(dt.year, dt.month) + dt.day

DateLT(a, b) == Ordinal(a) < Ordinal(b)

DateGE(a, b) == Ordinal(a) >= Ordinal(b)

\* relativedelta._set_months: a month count as signed years and months
SetMonths(months) ==
    IF Abs(months) > 11
    THEN [years  |-> Sgn(months) * (Abs(months) \div 12),
          months |-> Sgn(months) * (Abs(months) % 12)]
    ELSE [years |-> 0, months |-> months]

\* The day clipped to the month's last day
ClipDay(y, m, d) == Date(y, m, Min2(DaysInMonth(y, m), d))

\* relativedelta.__add__: a month outside 1..12 carries into the year
NormMonth(y0, m0, d) ==
    IF m0 > 12 THEN ClipDay(y0 + 1, m0 - 12, d)
    ELSE IF m0 < 1 THEN ClipDay(y0 - 1, m0 + 12, d)
    ELSE ClipDay(y0, m0, d)

\* dt + relativedelta(months)
AddMonths(dt, months) ==
    NormMonth(dt.year + SetMonths(months).years,
              dt.month + SetMonths(months).months, dt.day)

\* relativedelta.__init__(dt1, dt2): the loop that corrects the month count;
\* dtm is dt2 moved by `months`
RECURSIVE WholeMonths(_, _, _, _)
WholeMonths(dt1, dt2, months, dtm) ==
    IF DateLT(dt1, dt2)
    THEN IF DateLT(dtm, dt1)
         THEN WholeMonths(dt1, dt2, months + 1, AddMonths(dt2, months + 1))
         ELSE months
    ELSE IF DateLT(dt1, dtm)
         THEN WholeMonths(dt1, dt2, months - 1, AddMonths(dt2, months - 1))
         ELSE months

\* relativedelta.__init__: the delta once the month count is known
DeltaOf(dt1, dt2, months) ==
    [years  |-> SetMonths(months).years,
     months |-> SetMonths(months).months,
     days   |-> Ordinal(dt1) - Ordinal(AddMonths(dt2, months))]

\* The month count relativedelta.__init__ starts from
MonthsApart(dt1, dt2) == (dt1.year - dt2.year) * 12 + (dt1.month - dt2.month)

\* relativedelta(dt1, dt2): years, months and days from dt2 to dt1
relativedelta(dt1, dt2) ==
    DeltaOf(dt1, dt2,
            WholeMonths(dt1, dt2, MonthsApart(dt1, dt2),
                        AddMonths(dt2, MonthsApart(dt1, dt2))))

-----------------------------------------------------------------------------
(* src/pension_calculator_app.py: constants and helper functions *)

MANAGEMENT_CHARGES == (65 * Scale) \div 1000

REGULATORY_CHARGES == (1 * Scale) \div 100

INTEREST_RATE == (105 * Scale) \div 1000

DISCOUNT_RATE == (8 * Scale) \div 100

MIN_LUMPSUM == 0 * Scale

MIN_PENSION_PAYOUT == (5 * Scale) \div 10

INTEREST_RATE_NET_CHARGES ==
    FMul(INTEREST_RATE, Scale - MANAGEMENT_CHARGES - REGULATORY_CHARGES)

cutoff_date == Date(2024, 9, 1)

\* datedif(start_date, end_date, "Y")
datedif_Y(start_date, end_date) == relativedelta(end_date, start_date).years

\* yearfrac's return expression
yearfrac_of(delta) ==
    ToFloat(delta.years)
    + FDiv(ToFloat(delta.months), ToFloat(12))
    + FDiv(ToFloat(delta.days), 36525 * (Scale \div 100))

yearfrac(start_date, end_date) ==
    yearfrac_of(relativedelta(end_date, start_date))

pmt(rate, nper, pval, fv, when) ==
    IF rate = 0
    THEN FDiv(-(pval + fv), nper)
    ELSE LET factor == PowF(Scale + rate, nper)
         IN  FDiv(-(FMul(pval, factor) + fv),
                  FDiv(FMul(Scale + rate * when, factor - Scale), rate))

\* A variant of pv that takes every payment as made at the end of its period
pv_end_of_period(rate, nper, payment, fv, when) ==
    IF rate = 0
    THEN -FMul(payment, nper) - fv
    ELSE FDiv(-(FDiv(FMul(payment, PowF(Scale + rate, nper) - Scale), rate) + fv),
              PowF(Scale + rate, nper))

pv(rate, nper, payment, fv, when) ==
    IF rate = 0
    THEN FMul(-payment, nper) - fv
    ELSE LET factor == PowF(Scale + rate, nper)
         IN  FDiv(-(FDiv(FMul(FMul(payment, Scale + rate * when),
                              factor - Scale), rate) + fv),
                  factor)

\* A variant of determine_lumpsum that tests the regulatory limit first
determine_lumpsum_regulatory_first(max_lumpsum, adjusted_rsa, regulatory) ==
    IF max_lumpsum > regulatory THEN max_lumpsum
    ELSE IF max_lumpsum > adjusted_rsa THEN adjusted_rsa
    ELSE regulatory

determine_lumpsum(max_lumpsum, adjusted_rsa, regulatory) ==
    IF max_lumpsum > adjusted_rsa THEN adjusted_rsa
    ELSE IF max_lumpsum > regulatory THEN max_lumpsum
    ELSE regulatory

\* What a call returns: a value, or the message of the exception it raised.
\* A message stands for its fixed words: the mark that opens it and the
\* values an f-string puts into it (the age, the gender, the frequency) are
\* left out, so that one kind of failure has one message.
Ok(v) == [ok |-> TRUE, val |-> v, err |-> ""]

Raise(msg) == [ok |-> FALSE, val |-> 0, err |-> msg]

\* A variant of compute_final_monthly_pension whose third check compares the
\* lump sum with the maximum where the regulatory limit is the larger one
compute_final_monthly_pension_max_only(final_lumpsum, min_lumpsum, max_lumpsum, regulatory_lumpsum, new_adjusted_balance, monthly_rate, nper) ==
    IF final_lumpsum < min_lumpsum
    THEN Raise("Error: Lumpsum is less than the minimum allowed.")
    ELSE IF max_lumpsum > regulatory_lumpsum /\ final_lumpsum > max_lumpsum
    THEN Raise("Error: Lumpsum exceeds the Maximum Lumpsum limit.")
    ELSE IF max_lumpsum < regulatory_lumpsum /\ final_lumpsum > max_lumpsum
    THEN Raise("Error: Lumpsum exceeds the Regulatory Lumpsum limit.")
    ELSE Ok(-1 * pmt(monthly_rate, nper, new_adjusted_balance - final_lumpsum, 0, 1))

compute_final_monthly_pension(final_lumpsum, min_lumpsum, max_lumpsum, regulatory_lumpsum, new_adjusted_balance, monthly_rate, nper) ==
    IF final_lumpsum < min_lumpsum
    THEN Raise("Error: Lumpsum is less than the minimum allowed.")
    ELSE IF max_lumpsum > regulatory_lumpsum /\ final_lumpsum > max_lumpsum
    THEN Raise("Error: Lumpsum exceeds the Maximum Lumpsum limit.")
    ELSE IF max_lumpsum < regulatory_lumpsum /\ final_lumpsum > regulatory_lumpsum
    THEN Raise("Error: Lumpsum exceeds the Regulatory Lumpsum limit.")
    ELSE LET residual == new_adjusted_balance - final_lumpsum
         IN  Ok(-1 * pmt(monthly_rate, nper, residual, 0, 1))

\* A variant of get_final_arrears_months that refuses the equal case too
get_final_arrears_months_strict(negotiated_months, max_allowable_months) ==
    IF negotiated_months >= max_allowable_months
    THEN Raise("Error: Negotiated months exceed the maximum allowable arrears.")
    ELSE Ok(negotiated_months)

get_final_arrears_months(negotiated_months, max_allowable_months) ==
    IF negotiated_months > max_allowable_months
    THEN Raise("Error: Negotiated months exceed the maximum allowable arrears.")
    ELSE IF negotiated_months < max_allowable_months
    THEN Ok(negotiated_months)
    ELSE Ok(max_allowable_months)

calculate_pension_arrears(frequency, final_arrears_months, final_monthly_pension) ==
    IF frequency = 4
    THEN FMul(FDiv(final_arrears_months, ToFloat(3)), final_monthly_pension)
    ELSE FMul(final_arrears_months, final_monthly_pension)

\* A variant of lookup_ax that falls back on the first row of the table when
\* the age is absent
lookup_ax_first_row(gender, frequency, retirement_age, male4, male12, female4, female12) ==
    LET known == gender \in {"M", "F"} /\ frequency \in {4, 12}
        table == IF gender = "M" /\ frequency = 4 THEN male4
                 ELSE IF gender = "M" /\ frequency = 12 THEN male12
                 ELSE IF gender = "F" /\ frequency = 4 THEN female4
                 ELSE female12
        match == SelectSeq(table, LAMBDA r : r.age = retirement_age)
    IN  IF ~known THEN Raise("Invalid combination of gender and frequency.")
        ELSE IF match # <<>> THEN Ok(match[1].ax)
        ELSE Ok(table[1].ax)

lookup_ax(gender, frequency, retirement_age, male4, male12, female4, female12) ==
    LET known == \/ gender = "M" /\ frequency = 4
                 \/ gender = "M" /\ frequency = 12
                 \/ gender = "F" /\ frequency = 4
                 \/ gender = "F" /\ frequency = 12
        table == IF gender = "M" /\ frequency = 4 THEN male4
                 ELSE IF gender = "M" /\ frequency = 12 THEN male12
                 ELSE IF gender = "F" /\ frequency = 4 THEN female4
                 ELSE female12
        match == SelectSeq(table, LAMBDA r : r.age = retirement_age)
    IN  IF ~known THEN Raise("Invalid combination of gender and frequency.")
        ELSE IF match # <<>> THEN Ok(match[1].ax)
        ELSE Raise("Age not found in selected table.")

-----------------------------------------------------------------------------
(* Cells of an uploaded sheet, and Python's conversions of them *)

Num(n) == [kind |-> "num", n |-> n, s |-> ""]

Text(s) == [kind |-> "text", n |-> 0, s |-> s]

\* str(cell), on the numbers the model's sheets hold
Str(cell) ==
    IF cell.kind = "text" THEN cell.s
    ELSE CASE cell.n = 5 -> "5"
           [] cell.n = 8 -> "8"
           [] OTHER -> "0"

\* float(cell): text that is no number raises ValueError
Float(cell) ==
    IF cell.kind = "num" THEN Ok(ToFloat(cell.n))
    ELSE Raise("could not convert string to float")

\* int(cell)
Int_(cell) ==
    IF cell.kind = "num" THEN Ok(cell.n)
    ELSE Raise("invalid literal for int() with base 10")

\* str.upper(), on the texts the model's sheets hold
Upper(s) ==
    CASE s = "m" -> "M"
      [] s = "f" -> "F"
      [] s = "pu" -> "PU"
      [] s = "pr" -> "PR"
      [] OTHER -> s

\* str.lower()
Lower(s) ==
    CASE s = "CONPOSS" -> "conposs"
      [] s = "Conposs" -> "conposs"
      [] s = "CONHESS" -> "conhess"
      [] OTHER -> s

\* pd.to_datetime(text, format='%d-%m-%Y'): the text is the numbers between
\* its dashes, <<a, b, c>> for "a-b-c"; any other text is <<>>.
to_datetime(text) ==
    IF /\ Len(text) = 3
       /\ text[3] \in 1..9999
       /\ text[2] \in 1..12
       /\ text[1] \in 1..DaysInMonth(text[3], text[2])
    THEN [ok |-> TRUE, val |-> Date(text[3], text[2], text[1]), err |-> ""]
    ELSE [ok |-> FALSE, val |-> Date(1, 1, 1),
          err |-> "time data doesn't match format"]

-----------------------------------------------------------------------------
(* src/streamlit_batch_pension_calculator_app.py: class PensionCalculator *)

\* The lookup tables as read from Male12.csv, Female12.csv, Male4.csv,
\* Female4.csv and SalaryStructure.csv.
Male12Csv ==
    << [age |-> 55, ax |-> 1145833], [age |-> 60, ax |-> 1045833],
       [age |-> 65, ax |-> 945833] >>

Female12Csv ==
    << [age |-> 55, ax |-> 1220000], [age |-> 60, ax |-> 1120000],
       [age |-> 65, ax |-> 1010000] >>

Male4Csv ==
    << [age |-> 55, ax |-> 1130000], [age |-> 60, ax |-> 1030000],
       [age |-> 65, ax |-> 930000] >>

Female4Csv ==
    << [age |-> 55, ax |-> 1205000], [age |-> 60, ax |-> 1105000],
       [age |-> 65, ax |-> 995000] >>

SalaryStructureCsv ==
    << [structure |-> "CONPOSS", grade |-> "08", step |-> "05",
        annual |-> ToFloat(120)],
       [structure |-> "CONHESS", grade |-> "8", step |-> "5",
        annual |-> ToFloat(180)] >>

\* PensionCalculator.__init__ and load_lookup_tables
PensionCalculator ==
    [ management_charges |-> (65 * Scale) \div 1000,
      regulatory_charges |-> (1 * Scale) \div 100,
      interest_rate      |-> (105 * Scale) \div 1000,
      discount_rate      |-> (8 * Scale) \div 100,
      min_pension_payout |-> (5 * Scale) \div 10,
      interest_rate_net_charges |->
          FMul((105 * Scale) \div 1000,
               Scale - (65 * Scale) \div 1000 - (1 * Scale) \div 100),
      monthly_rate |->
          FDiv(FMul((105 * Scale) \div 1000,
                    Scale - (65 * Scale) \div 1000 - (1 * Scale) \div 100),
               ToFloat(12)),
      cutoff_date  |-> Date(2024, 9, 1),
      male12   |-> Male12Csv,
      female12 |-> Female12Csv,
      male4    |-> Male4Csv,
      female4  |-> Female4Csv,
      salary_structure |-> SalaryStructureCsv ]

PC_datedif_Y(start_date, end_date) == relativedelta(end_date, start_date).years

\* PensionCalculator.yearfrac's return expression
PC_yearfrac_of(delta) ==
    ToFloat(delta.years)
    + FDiv(ToFloat(delta.months), ToFloat(12))
    + FDiv(ToFloat(delta.days), 36525 * (Scale \div 100))

PC_yearfrac(start_date, end_date) ==
    PC_yearfrac_of(relativedelta(end_date, start_date))

\* Returns <<annual salary>>, or None when no row matches.
PC_get_annual_salary(self, salary_structure, grade_level, step) ==
    LET result == SelectSeq(self.salary_structure,
                      LAMBDA r : /\ Lower(r.structure) = Lower(Str(salary_structure))
                                 /\ r.grade = Str(grade_level)
                                 /\ r.step = Str(step))
    IN  IF result # <<>> THEN Some(result[1].annual) ELSE None

PC_lookup_ax(self, gender, frequency, retirement_age) ==
    LET known == \/ Upper(gender) = "M" /\ frequency = 4
                 \/ Upper(gender) = "M" /\ frequency = 12
                 \/ Upper(gender) = "F" /\ frequency = 4
                 \/ Upper(gender) = "F" /\ frequency = 12
        table == IF Upper(gender) = "M" /\ frequency = 4 THEN self.male4
                 ELSE IF Upper(gender) = "M" /\ frequency = 12 THEN self.male12
                 ELSE IF Upper(gender) = "F" /\ frequency = 4 THEN self.female4
                 ELSE self.female12
        match == SelectSeq(table, LAMBDA r : r.age = retirement_age)
    IN  IF ~known THEN Raise("Invalid combination of gender and frequency.")
        ELSE IF match # <<>> THEN Ok(match[1].ax)
        ELSE Raise("Age not found in selected table.")

PC_pmt(rate, nper, pval, fv, when) ==
    IF rate = 0
    THEN FDiv(-(pval + fv), nper)
    ELSE LET factor == PowF(Scale + rate, nper)
         IN  FDiv(-(FMul(pval, factor) + fv),
                  FDiv(FMul(Scale + rate * when, factor - Scale), rate))

PC_pv(rate, nper, payment, fv, when) ==
    IF rate = 0
    THEN FMul(-payment, nper) - fv
    ELSE LET factor == PowF(Scale + rate, nper)
         IN  FDiv(-(FDiv(FMul(FMul(payment, Scale + rate * when),
                              factor - Scale), rate) + fv),
                  factor)

\* A variant of PensionCalculator.determine_lumpsum that recommends the whole
\* adjusted balance
PC_determine_lumpsum_whole_balance(max_lumpsum, adjusted_rsa, regulatory) ==
    adjusted_rsa

PC_determine_lumpsum(max_lumpsum, adjusted_rsa, regulatory) ==
    IF max_lumpsum > adjusted_rsa THEN adjusted_rsa
    ELSE IF max_lumpsum > regulatory THEN max_lumpsum
    ELSE regulatory

\* A variant of calculate_pension_arrears that takes a quarter for four months
PC_calculate_pension_arrears_by_four(frequency, final_arrears_months, final_monthly_pension) ==
    IF frequency = 4
    THEN FMul(FDiv(final_arrears_months, ToFloat(4)), final_monthly_pension)
    ELSE FMul(final_arrears_months, final_monthly_pension)

PC_calculate_pension_arrears(frequency, final_arrears_months, final_monthly_pension) ==
    IF frequency = 4
    THEN FMul(FDiv(final_arrears_months, ToFloat(3)), final_monthly_pension)
    ELSE FMul(final_arrears_months, final_monthly_pension)


PC_create_error_result(row, error_message) ==
    [ client_id             |-> row.client_id,
      status                |-> "ERROR",
      error_message         |-> error_message,
      current_age           |-> None,
      retirement_age        |-> None,
      validated_salary      |-> None,
      max_arrears_months    |-> None,
      final_lumpsum         |-> None,
      final_monthly_pension |-> None,
      pension_arrears       |-> None,
      total_benefit         |-> None,
      annuity_premium       |-> None ]

\* process_single_client, the cap on the arrears months of sector PR
PC_cap_arrears(sector, max_arrears_months) ==
    IF sector = "PR" THEN Min2(max_arrears_months, ToFloat(6))
    ELSE max_arrears_months

\* process_single_client, "Calculate max arrears": the months from retirement
\* to programming, capped at 6 for sector PR, rounded to a whole month
PC_max_arrears(sector, retirement_date, programming_date) ==
    Round0(PC_cap_arrears(sector,
                          PC_yearfrac(retirement_date, programming_date) * 12))

\* process_single_client, "Determine validated salary": whether the salary
\* structure table is the source of the salary
PC_uses_salary_structure(self, sector, retirement_date) ==
    sector = "PU" /\ DateGE(retirement_date, self.cutoff_date)

(* process_single_client, one operator for each of its steps.  L holds the  *)
(* local variables assigned so far, under their names in the source.        *)

\* the SUCCESS dictionary
psc_return(row, L) ==
    [ client_id             |-> row.client_id,
      status                |-> "SUCCESS",
      error_message         |-> "",
      current_age           |-> Some(L.current_age),
      retirement_age        |-> Some(L.retirement_age),
      validated_salary      |-> Some(L.validated_salary),
      max_arrears_months    |-> Some(L.max_arrears),
      final_lumpsum         |-> Some(L.final_lumpsum),
      final_monthly_pension |-> Some(L.final_monthly_pension),
      pension_arrears       |-> Some(L.pension_arrears),
      total_benefit         |-> Some(L.total_benefit),
      annuity_premium       |-> Some(L.annuity_premium) ]

\* A variant of psc_annuity_premium that starts from the discounted balance
psc_annuity_premium_discounted(row, L) ==
    psc_return(row,
        [annuity_premium |->
            L.new_adjusted_balance - L.total_benefit
              - L.final_monthly_pension] @@ L)

\* "Calculate totals": annuity_premium
psc_annuity_premium(row, L) ==
    psc_return(row,
        [annuity_premium |->
            L.rsa_balance - L.total_benefit - L.final_monthly_pension] @@ L)

\* "Calculate totals": total_benefit
psc_totals(row, L) ==
    psc_annuity_premium(row,
        [total_benefit |-> L.final_lumpsum + L.pension_arrears] @@ L)

\* "Calculate pension arrears"
psc_pension_arrears(row, L) ==
    psc_totals(row,
        [pension_arrears |->
            PC_calculate_pension_arrears(L.frequency, L.preferred_arrears,
                                         L.final_monthly_pension)] @@ L)

\* "Calculate final monthly pension"
psc_final_pension(self, row, L) ==
    psc_pension_arrears(row,
        [residual |-> L.new_adjusted_balance - L.final_lumpsum,
         final_monthly_pension |->
            -1 * PC_pmt(self.monthly_rate, L.nper,
                        L.new_adjusted_balance - L.final_lumpsum, 0, 1)] @@ L)

\* "Calculate recommended lumpsum and use it as final lumpsum"
psc_final_lumpsum(self, row, L) ==
    psc_final_pension(self, row,
        [recommended_lumpsum |->
            PC_determine_lumpsum(L.max_lumpsum, L.new_adjusted_balance,
                                 L.regulatory_lumpsum),
         final_lumpsum |->
            PC_determine_lumpsum(L.max_lumpsum, L.new_adjusted_balance,
                                 L.regulatory_lumpsum)] @@ L)

\* "Calculate max lumpsum"
psc_max_lumpsum(self, row, L) ==
    psc_final_lumpsum(self, row,
        [max_lumpsum |->
            Max2(0, L.new_adjusted_balance
                    + PC_pv(self.monthly_rate, L.nper,
                            L.fifty_percent_salary, 0, 1))] @@ L)

\* A variant of psc_nper that keeps the ages already computed in the ERROR
\* dictionary: a result with only some fields populated
psc_nper_partial(self, row, L, ax_value) ==
    IF ~ax_value.ok
    THEN [PC_create_error_result(row, ax_value.err)
            EXCEPT !.current_age = Some(L.current_age),
                   !.retirement_age = Some(L.retirement_age)]
    ELSE psc_max_lumpsum(self, row,
             [ax_value |-> ax_value.val,
              nc   |-> ax_value.val - FDiv(ToFloat(11), ToFloat(24)),
              nper |-> 2 * L.frequency
                         * (ax_value.val - FDiv(ToFloat(11), ToFloat(24)))] @@ L)

\* "Lookup ax value and calculate nc", once lookup_ax has returned or raised
psc_nper(self, row, L, ax_value) ==
    IF ~ax_value.ok THEN PC_create_error_result(row, ax_value.err)
    ELSE psc_max_lumpsum(self, row,
             [ax_value |-> ax_value.val,
              nc   |-> ax_value.val - FDiv(ToFloat(11), ToFloat(24)),
              nper |-> 2 * L.frequency
                         * (ax_value.val - FDiv(ToFloat(11), ToFloat(24)))] @@ L)

\* "Lookup ax value and calculate nc"
psc_lookup_ax(self, row, L) ==
    psc_nper(self, row, L,
             PC_lookup_ax(self, L.gender, L.frequency, L.retirement_age))

\* "Calculate 50% of final salary".  A salary typed in the sheet is a Python
\* float, whose division by zero raises; a salary from the table is a numpy
\* float, whose division by zero gives inf, which nothing reads before
\* lookup_ax rejects the frequency 0.
psc_fifty_percent_salary(self, row, L) ==
    IF L.frequency = 0 /\ ~L.salary_is_numpy
    THEN PC_create_error_result(row, "float division by zero")
    ELSE psc_lookup_ax(self, row,
             [fifty_percent_salary |->
                 IF L.frequency = 0 THEN 0
                 ELSE FMul(FDiv(L.validated_salary, ToFloat(L.frequency)),
                           self.min_pension_payout)] @@ L)

\* "Calculate adjusted balance" and "Calculate regulatory lumpsum"
psc_adjusted_balance(self, row, L) ==
    psc_fifty_percent_salary(self, row,
        [preferred_max_arrears_years |-> FDiv(L.preferred_arrears, ToFloat(12)),
         new_adjusted_balance |->
            FMul(L.rsa_balance,
                 PowF(Scale + self.discount_rate,
                      -FDiv(L.preferred_arrears, ToFloat(12)))),
         regulatory_lumpsum |-> FMul(L.rsa_balance, (25 * Scale) \div 100)] @@ L)

\* "Use maximum arrears available"
psc_preferred_arrears(self, row, L) ==
    psc_adjusted_balance(self, row, [preferred_arrears |-> L.max_arrears] @@ L)

\* "Calculate max arrears"
psc_max_arrears(self, row, L) ==
    psc_preferred_arrears(self, row,
        [max_arrears |-> PC_max_arrears(L.sector, L.retirement_date,
                                        L.programming_date)] @@ L)

\* "Determine validated salary", the salary structure branch, once
\* get_annual_salary has returned
psc_structure_salary(self, row, L, validated_salary) ==
    IF validated_salary = None
    THEN PC_create_error_result(row, "Salary structure not found")
    ELSE psc_max_arrears(self, row,
             [validated_salary |-> validated_salary[1],
              salary_is_numpy  |-> TRUE] @@ L)

\* "Determine validated salary", the monthly salary branch, once float() has
\* returned or raised
psc_monthly_salary(self, row, L, monthly_salary) ==
    IF ~monthly_salary.ok THEN PC_create_error_result(row, monthly_salary.err)
    ELSE psc_max_arrears(self, row,
             [validated_salary |-> monthly_salary.val * 12,
              salary_is_numpy  |-> FALSE] @@ L)

\* "Determine validated salary"
psc_validated_salary(self, row, L) ==
    IF PC_uses_salary_structure(self, L.sector, L.retirement_date)
    THEN psc_structure_salary(self, row, L,
             PC_get_annual_salary(self, row.salary_structure,
                                  row.grade_level, row.step))
    ELSE psc_monthly_salary(self, row, L, Float(row.monthly_salary))

\* "Calculate ages"
psc_ages(self, row, L) ==
    psc_validated_salary(self, row,
        [current_age    |-> PC_datedif_Y(L.dob, L.programming_date),
         retirement_age |-> PC_datedif_Y(L.dob, L.retirement_date)] @@ L)

\* "Extract other parameters"
psc_extract(self, row, L) ==
    IF ~Int_(row.frequency).ok
    THEN PC_create_error_result(row, Int_(row.frequency).err)
    ELSE IF ~Float(row.rsa_balance).ok
    THEN PC_create_error_result(row, Float(row.rsa_balance).err)
    ELSE psc_ages(self, row,
             [gender      |-> Upper(row.gender),
              sector      |-> Upper(row.sector),
              frequency   |-> Int_(row.frequency).val,
              rsa_balance |-> Float(row.rsa_balance).val] @@ L)

\* "Parse dates", and from there the whole of process_single_client: the
\* SUCCESS dictionary, or create_error_result at the first exception
PC_process_single_client(self, row) ==
    IF ~to_datetime(row.date_of_birth).ok
    THEN PC_create_error_result(row, to_datetime(row.date_of_birth).err)
    ELSE IF ~to_datetime(row.retirement_date).ok
    THEN PC_create_error_result(row, to_datetime(row.retirement_date).err)
    ELSE IF ~to_datetime(row.programming_date).ok
    THEN PC_create_error_result(row, to_datetime(row.programming_date).err)
    ELSE psc_extract(self, row,
             [dob              |-> to_datetime(row.date_of_birth).val,
              retirement_date  |-> to_datetime(row.retirement_date).val,
              programming_date |-> to_datetime(row.programming_date).val])

\* A variant of main_cap_arrears without the cap
main_cap_arrears_none(sector, max_arrears_months) == max_arrears_months

\* main, the cap on the arrears months of sector PR
main_cap_arrears(sector, max_arrears_months) ==
    IF sector = "PR" THEN Min2(max_arrears_months, ToFloat(6))
    ELSE max_arrears_months

\* main, "Calculate max arrears"
main_max_arrears(sector, retirement_dt, programming_dt) ==
    Round0(main_cap_arrears(sector,
                            yearfrac(retirement_dt, programming_dt) * 12))

-----------------------------------------------------------------------------
(* process_batch as a state machine *)

NoCall == [fn |-> "none"]

\* A variant of process_batch_row that ends the loop at the first ERROR row
process_batch_row_abort ==
    /\ batch_pc = "loop"
    /\ Len(results) < Len(df)
    /\ results' = Append(results,
                         PC_process_single_client(calculator, df[Len(results) + 1]))
    /\ batch_pc' = IF results'[Len(results')].status = "ERROR" THEN "done"
                   ELSE batch_pc
    /\ UNCHANGED <<calculator, df, final_df, call, streamlit>>

\* One iteration of `for index, row in df.iterrows()`
process_batch_row ==
    /\ batch_pc = "loop"
    /\ Len(results) < Len(df)
    /\ LET row    == df[Len(results) + 1]
           result == PC_process_single_client(calculator, row)
       IN  results' = Append(results, result)
    /\ UNCHANGED <<calculator, df, final_df, batch_pc, call, streamlit>>

\* After the loop: results_df and final_df = pd.concat([df, results_df], axis=1)
process_batch_return ==
    /\ batch_pc = "loop"
    /\ Len(results) = Len(df)
    /\ final_df' = [i \in 1..Len(df) |-> [input |-> df[i], output |-> results[i]]]
    /\ batch_pc' = "done"
    /\ UNCHANGED <<calculator, df, results, call, streamlit>>

NextBatch == process_batch_row \/ process_batch_return

\* The sheets: every date is text "dd-mm-yyyy", given by its three numbers.
DobCells == { <<15, 8, 1964>>, <<15, 6, 1962>>, <<>> }

RetirementCells == { <<31, 8, 2024>>, <<1, 9, 2024>>, <<2024, 9, 1>> }

ProgrammingCells == { <<17, 3, 2025>>, <<1, 3, 2024>>, <<1, 9, 2044>> }

GenderCells == { "M", "f", "X" }

SectorCells == { "PU", "PR" }

FrequencyCells == { Num(4), Num(12), Num(0), Text("monthly") }

BalanceCells == { Num(1000), Num(0), Num(-100), Text("n/a") }

SalaryCells == { Num(10), Num(0), Text("n/a") }

StructureCells ==
    { [salary_structure |-> Text("conposs"), grade_level |-> Text("08"),
       step |-> Text("05")],
      [salary_structure |-> Text("CONPOSS"), grade_level |-> Num(8),
       step |-> Num(5)] }

Row(id, dob, ret, prog, g, sec, f, bal, sal, st) ==
    [ client_id        |-> id,
      date_of_birth    |-> dob,
      retirement_date  |-> ret,
      programming_date |-> prog,
      gender           |-> g,
      sector           |-> sec,
      frequency        |-> f,
      rsa_balance      |-> bal,
      monthly_salary   |-> sal,
      salary_structure |-> st.salary_structure,
      grade_level      |-> st.grade_level,
      step             |-> st.step ]

\* Every sheet row over the cells above
ClientRows ==
    { Row("A", dob, ret, prog, g, sec, f, bal, sal, st) :
        dob \in DobCells, ret \in RetirementCells, prog \in ProgrammingCells,
        g \in GenderCells, sec \in SectorCells, f \in FrequencyCells,
        bal \in BalanceCells, sal \in SalaryCells, st \in StructureCells }

InitCall == call = NoCall

\* What a run of main rendered: which part of the page it reached, the
\* st.error or exception text, the bounds the two number inputs of the
\* configuration were built with (None when the run did not reach them), and
\* the results when it displayed them
Page(shown, error, arrears_input, lumpsum_input, result) ==
    [ shown         |-> shown,
      error         |-> error,
      arrears_input |-> arrears_input,
      lumpsum_input |-> lumpsum_input,
      result        |-> result ]

\* The interactive calculator has not been opened
NoSession ==
    [ widgets       |-> <<>>,
      session_state |-> None,
      page          |-> Page("closed", "", None, None, None) ]

InitNoSession == streamlit = NoSession

\* A sheet of one client, any row
InitClient ==
    /\ calculator = PensionCalculator
    /\ df \in { <<r>> : r \in ClientRows }
    /\ results = <<>>
    /\ final_df = <<>>
    /\ batch_pc = "loop"
    /\ InitCall
    /\ InitNoSession

SpecClient == InitClient /\ [][NextBatch]_vars

\* The sheets of the batch specification: clients that differ in sector,
\* gender, balance and salary structure, some of which fail
BatchRows ==
    { r \in ClientRows :
        /\ r.date_of_birth = <<15, 8, 1964>>
        /\ r.retirement_date = <<1, 9, 2024>>
        /\ r.programming_date = <<17, 3, 2025>>
        /\ r.gender \in {"M", "X"}
        /\ r.frequency = Num(12)
        /\ r.rsa_balance \in {Num(1000), Text("n/a")}
        /\ r.monthly_salary = Num(10) }

MaxBatch == 2

RECURSIVE SeqsUpTo(_, _)
SeqsUpTo(S, n) ==
    IF n = 0 THEN { <<>> }
    ELSE SeqsUpTo(S, n - 1)
         \cup { Append(q, x) : q \in { t \in SeqsUpTo(S, n - 1) : Len(t) = n - 1 },
                               x \in S }

\* A sheet of up to MaxBatch clients has been uploaded and the button clicked
Init ==
    /\ calculator = PensionCalculator
    /\ df \in SeqsUpTo(BatchRows, MaxBatch)
    /\ results = <<>>
    /\ final_df = <<>>
    /\ batch_pc = "loop"
    /\ InitCall
    /\ InitNoSession

Next == NextBatch

Spec == Init /\ [][Next]_vars

-----------------------------------------------------------------------------
(* The helper functions called on their own *)

\* main, "Calculate lumpsum limits": monthly_rate
main_monthly_rate == FDiv(INTEREST_RATE_NET_CHARGES, ToFloat(12))

MaxMonths == 12

Amounts(S) == { ToFloat(n) : n \in S }

call_determine_lumpsum ==
    /\ call = NoCall
    /\ \E max_lumpsum \in Amounts({0, 200, 250, 400, 1000}),
          adjusted_rsa \in Amounts({-100, 0, 250, 400, 900}),
          regulatory \in Amounts({-25, 0, 250, 400}) :
          call' = [fn   |-> "determine_lumpsum",
                   args |-> [max_lumpsum |-> max_lumpsum,
                             adjusted_rsa |-> adjusted_rsa,
                             regulatory |-> regulatory],
                   ret  |-> determine_lumpsum(max_lumpsum, adjusted_rsa, regulatory),
                   ret_batch |->
                       PC_determine_lumpsum(max_lumpsum, adjusted_rsa, regulatory)]
    /\ UNCHANGED <<calculator, df, results, final_df, batch_pc, streamlit>>

\* As main calls it: min_lumpsum is MIN_LUMPSUM, the rate is monthly_rate
\* (nper is 2 * frequency * nc: a whole and a fractional number of periods)
call_compute_final_monthly_pension ==
    /\ call = NoCall
    /\ \E final_lumpsum \in Amounts({-1, 0, 200, 250, 300, 400, 500}),
          max_lumpsum \in Amounts({0, 250, 400}),
          regulatory_lumpsum \in Amounts({250, 400}),
          new_adjusted_balance \in Amounts({400, 1000}),
          nper \in {ToFloat(240), 7793336} :
          call' = [fn   |-> "compute_final_monthly_pension",
                   args |-> [final_lumpsum |-> final_lumpsum,
                             max_lumpsum |-> max_lumpsum,
                             regulatory_lumpsum |-> regulatory_lumpsum,
                             new_adjusted_balance |-> new_adjusted_balance,
                             nper |-> nper],
                   ret  |-> compute_final_monthly_pension(
                                final_lumpsum, MIN_LUMPSUM, max_lumpsum,
                                regulatory_lumpsum, new_adjusted_balance,
                                main_monthly_rate, nper)]
    /\ UNCHANGED <<calculator, df, results, final_df, batch_pc, streamlit>>

call_lookup_ax ==
    /\ call = NoCall
    /\ \E gender \in {"M", "F", "m", "f", "X"},
          frequency \in {0, 4, 6, 12},
          retirement_age \in 54..66 :
          call' = [fn   |-> "lookup_ax",
                   args |-> [gender |-> gender, frequency |-> frequency,
                             retirement_age |-> retirement_age],
                   ret  |-> lookup_ax(gender, frequency, retirement_age,
                                      Male4Csv, Male12Csv, Female4Csv, Female12Csv),
                   ret_batch |->
                       PC_lookup_ax(PensionCalculator, gender, frequency,
                                    retirement_age)]
    /\ UNCHANGED <<calculator, df, results, final_df, batch_pc, streamlit>>

call_max_arrears ==
    /\ call = NoCall
    /\ \E sector \in {"PU", "PR"},
          retirement_date \in { Date(2023, 2, 28), Date(2024, 1, 31),
                                Date(2024, 8, 31), Date(2024, 9, 1) },
          programming_date \in { Date(2023, 12, 25), Date(2024, 2, 29),
                                 Date(2024, 3, 1), Date(2024, 9, 16),
                                 Date(2024, 9, 17), Date(2025, 2, 28),
                                 Date(2025, 3, 17), Date(2031, 1, 1) } :
          call' = [fn   |-> "max_arrears",
                   args |-> [sector |-> sector,
                             retirement_date |-> retirement_date,
                             programming_date |-> programming_date],
                   ret  |-> main_max_arrears(sector, retirement_date,
                                             programming_date),
                   ret_batch |->
                       PC_max_arrears(sector, retirement_date, programming_date)]
    /\ UNCHANGED <<calculator, df, results, final_df, batch_pc, streamlit>>

call_get_final_arrears_months ==
    /\ call = NoCall
    /\ \E negotiated_months \in Amounts(0..MaxMonths),
          max_allowable_months \in Amounts(-1..MaxMonths) :
          call' = [fn   |-> "get_final_arrears_months",
                   args |-> [negotiated_months |-> negotiated_months,
                             max_allowable_months |-> max_allowable_months],
                   ret  |-> get_final_arrears_months(negotiated_months,
                                                     max_allowable_months)]
    /\ UNCHANGED <<calculator, df, results, final_df, batch_pc, streamlit>>

call_calculate_pension_arrears ==
    /\ call = NoCall
    /\ \E frequency \in {4, 12},
          final_arrears_months \in Amounts(0..MaxMonths),
          final_monthly_pension \in Amounts({0, 7, 1000}) \cup {499079} :
          call' = [fn   |-> "calculate_pension_arrears",
                   args |-> [frequency |-> frequency,
                             final_arrears_months |-> final_arrears_months,
                             final_monthly_pension |-> final_monthly_pension],
                   ret  |-> calculate_pension_arrears(
                                frequency, final_arrears_months,
                                final_monthly_pension),
                   ret_batch |->
                       PC_calculate_pension_arrears(
                           frequency, final_arrears_months,
                           final_monthly_pension)]
    /\ UNCHANGED <<calculator, df, results, final_df, batch_pc, streamlit>>

\* pmt and then pv of its result, as main and process_single_client chain
\* them through the residual balance: pv(rate, nper, pmt(rate, nper, pval, fv,
\* when), fv, when), by both copies
call_pmt_pv ==
    /\ call = NoCall
    /\ \E rate \in {0, main_monthly_rate, -500, 400},
          nper \in {ToFloat(1), ToFloat(12), ToFloat(240), 7793336, 50000},
          pval \in Amounts({-500, 0, 250, 1000}),
          fv \in Amounts({0, 100}),
          when \in {0, 1} :
          call' = [fn   |-> "pmt_pv",
                   args |-> [rate |-> rate, nper |-> nper, pval |-> pval,
                             fv |-> fv, when |-> when],
                   payment |-> pmt(rate, nper, pval, fv, when),
                   ret  |-> pv(rate, nper, pmt(rate, nper, pval, fv, when),
                               fv, when),
                   ret_batch |->
                       PC_pv(rate, nper, PC_pmt(rate, nper, pval, fv, when),
                             fv, when)]
    /\ UNCHANGED <<calculator, df, results, final_df, batch_pc, streamlit>>

\* process_single_client from "Calculate adjusted balance" to "Calculate final
\* monthly pension", for a max_lumpsum given: the recommended lump sum is the
\* final one; and what main's compute_final_monthly_pension makes of that
\* final lump sum
call_batch_final_lumpsum ==
    /\ call = NoCall
    /\ \E rsa_balance \in Amounts({1, 1000, 1200}),
          preferred_arrears \in Amounts({-6, 0, 6, 240}),
          max_lumpsum \in Amounts({0, 1, 200, 250, 300, 400, 1000, 1200}) :
          LET new_adjusted_balance ==
                  FMul(rsa_balance,
                       PowF(Scale + PensionCalculator.discount_rate,
                            -FDiv(preferred_arrears, ToFloat(12))))
              regulatory_lumpsum == FMul(rsa_balance, (25 * Scale) \div 100)
          IN  call' = [fn   |-> "batch_final_lumpsum",
                       args |-> [rsa_balance |-> rsa_balance,
                                 preferred_arrears |-> preferred_arrears,
                                 new_adjusted_balance |-> new_adjusted_balance,
                                 regulatory_lumpsum |-> regulatory_lumpsum,
                                 max_lumpsum |-> max_lumpsum],
                       final_lumpsum |->
                           PC_determine_lumpsum(max_lumpsum, new_adjusted_balance,
                                                regulatory_lumpsum),
                       ret_batch |->
                           -1 * PC_pmt(PensionCalculator.monthly_rate, ToFloat(240),
                                       new_adjusted_balance
                                         - PC_determine_lumpsum(
                                               max_lumpsum, new_adjusted_balance,
                                               regulatory_lumpsum),
                                       0, 1),
                       ret  |-> compute_final_monthly_pension(
                                    PC_determine_lumpsum(
                                        max_lumpsum, new_adjusted_balance,
                                        regulatory_lumpsum),
                                    MIN_LUMPSUM, max_lumpsum, regulatory_lumpsum,
                                    new_adjusted_balance, main_monthly_rate,
                                    ToFloat(240))]
    /\ UNCHANGED <<calculator, df, results, final_df, batch_pc, streamlit>>

InitFunctions ==
    /\ calculator = PensionCalculator
    /\ df = <<>>
    /\ results = <<>>
    /\ final_df = <<>>
    /\ batch_pc = "idle"
    /\ InitCall
    /\ InitNoSession

NextFunctions ==
    \/ call_determine_lumpsum
    \/ call_compute_final_monthly_pension
    \/ call_lookup_ax
    \/ call_max_arrears
    \/ call_get_final_arrears_months
    \/ call_calculate_pension_arrears
    \/ call_pmt_pv
    \/ call_batch_final_lumpsum

SpecFunctions == InitFunctions /\ [][NextFunctions]_vars

-----------------------------------------------------------------------------
(* src/pension_calculator_app.py: main as a state machine.  Streamlit runs  *)
(* main from its first line after every edit of a widget and every click of *)
(* a button; a button is True only in the run its click started; the        *)
(* widgets' values and st.session_state outlive the run; a widget that a    *)
(* run does not reach, or builds with another label or other bounds, starts *)
(* again from its default value.  A run is the operator main: from the      *)
(* widgets, st.session_state, the page of the run before and the button     *)
(* clicked, to the three after the run.                                     *)

get_annual_salary(salary_structure, grade_level, step, salarystructure) ==
    LET result == SelectSeq(salarystructure,
                      LAMBDA r : /\ Lower(r.structure) = Lower(salary_structure)
                                 /\ r.grade = grade_level
                                 /\ r.step = step)
    IN  IF result # <<>> THEN Some(result[1].annual) ELSE None

Out(w, ss, pg) == [widgets |-> w, session_state |-> ss, page |-> pg]

\* The two number inputs of the configuration, not reached by a run
NoConfig(w) == [w EXCEPT !.preferred_arrears = 0, !.negotiated_lumpsum = 0]

\* "Display results" and "Summary"
main_display(w, ss, C, final_monthly_pension, final_arrears_months, pension_arrears) ==
    Out(w, ss,
        Page("results", "", Some(C.max_arrears_int), Some(C.recommended_lumpsum),
             Some([ final_monthly_pension |-> final_monthly_pension,
                    final_lumpsum         |-> w.negotiated_lumpsum,
                    final_arrears_months  |-> final_arrears_months,
                    pension_arrears       |-> pension_arrears,
                    total_benefit         |-> w.negotiated_lumpsum + pension_arrears,
                    annuity_premium       |->
                        ss[1].rsa_balance - w.negotiated_lumpsum
                          - pension_arrears - final_monthly_pension ])))

\* "Final calculations", once get_final_arrears_months has returned or raised
main_pension_arrears(w, ss, C, final_monthly_pension, final_arrears_months) ==
    IF ~final_arrears_months.ok
    THEN Out(w, ss, Page("final_error", final_arrears_months.err,
                         Some(C.max_arrears_int), Some(C.recommended_lumpsum), None))
    ELSE main_display(w, ss, C, final_monthly_pension, final_arrears_months.val,
                      calculate_pension_arrears(ss[1].frequency,
                                                final_arrears_months.val,
                                                final_monthly_pension))

\* "Final calculations", once compute_final_monthly_pension has returned or
\* raised
main_final_arrears_months(w, ss, C, final_monthly_pension) ==
    IF ~final_monthly_pension.ok
    THEN Out(w, ss, Page("final_error", final_monthly_pension.err,
                         Some(C.max_arrears_int), Some(C.recommended_lumpsum), None))
    ELSE main_pension_arrears(w, ss, C, final_monthly_pension.val,
             get_final_arrears_months(ToFloat(w.preferred_arrears),
                                      ss[1].max_arrears))

\* "Final calculation button"
main_final_button(w, ss, C, clicked) ==
    IF clicked = "calculate_final"
    THEN main_final_arrears_months(w, ss, C,
             compute_final_monthly_pension(
                 w.negotiated_lumpsum, MIN_LUMPSUM, C.max_lumpsum,
                 C.regulatory_lumpsum, C.new_adjusted_balance,
                 C.monthly_rate, C.nper))
    ELSE Out(w, ss, Page("config", "", Some(C.max_arrears_int),
                         Some(C.recommended_lumpsum), None))

\* The number input "Negotiated Lumpsum (max ...)": it keeps its value while
\* its label and max_value are those of the run before
main_negotiated_lumpsum(w, ss, pg, clicked, C) ==
    main_final_button(
        IF pg.lumpsum_input = Some(C.recommended_lumpsum) THEN w
        ELSE [w EXCEPT !.negotiated_lumpsum = 0],
        ss, C, clicked)

\* "Calculate lumpsum limits": recommended_lumpsum
main_recommended_lumpsum(w, ss, pg, clicked, C) ==
    main_negotiated_lumpsum(w, ss, pg, clicked,
        [recommended_lumpsum |->
            determine_lumpsum(C.max_lumpsum, C.new_adjusted_balance,
                              C.regulatory_lumpsum)] @@ C)

\* "Calculate lumpsum limits": max_lumpsum
main_max_lumpsum(w, ss, pg, clicked, C) ==
    main_recommended_lumpsum(w, ss, pg, clicked,
        [max_lumpsum |->
            Max2(0, C.new_adjusted_balance
                    + pv(C.monthly_rate, C.nper, C.fifty_percent_salary, 0, 1))] @@ C)

\* "Calculate lumpsum limits", once lookup_ax has returned or raised; the
\* call is outside every try, so what it raises ends the run
main_lumpsum_limits(w, ss, pg, clicked, C, ax_value) ==
    IF ~ax_value.ok
    THEN Out([w EXCEPT !.negotiated_lumpsum = 0], ss,
             Page("exception", ax_value.err, Some(C.max_arrears_int), None, None))
    ELSE main_max_lumpsum(w, ss, pg, clicked,
             [ax_value |-> ax_value.val,
              nc   |-> ax_value.val - FDiv(ToFloat(11), ToFloat(24)),
              nper |-> 2 * ss[1].frequency
                         * (ax_value.val - FDiv(ToFloat(11), ToFloat(24))),
              fifty_percent_salary |->
                  FMul(FDiv(ss[1].validated_salary, ToFloat(ss[1].frequency)),
                       MIN_PENSION_PAYOUT),
              regulatory_lumpsum |->
                  FMul(ss[1].rsa_balance, (25 * Scale) \div 100)] @@ C)

\* "Calculate adjusted balance and lumpsum limits based on preferred arrears"
main_adjusted_balance(w, ss, pg, clicked) ==
    main_lumpsum_limits(w, ss, pg, clicked,
        [max_arrears_int |-> IntOf(ss[1].max_arrears),
         new_adjusted_balance |->
            FMul(ss[1].rsa_balance,
                 PowF(Scale + DISCOUNT_RATE,
                      -FDiv(ToFloat(w.preferred_arrears), ToFloat(12)))),
         monthly_rate |-> main_monthly_rate],
        lookup_ax(ss[1].gender, ss[1].frequency, ss[1].retirement_age,
                  Male4Csv, Male12Csv, Female4Csv, Female12Csv))

\* "Show pension configuration inputs if parameters are available", and the
\* number input "Preferred Arrears (max ...)": Streamlit refuses a min_value
\* above the max_value with an exception, which ends the run; the input
\* keeps its value while its label and max_value are those of the run before
main_preferred_arrears(w, ss, pg, clicked) ==
    IF ss = None
    THEN Out(NoConfig(w), ss, Page("intake", "", None, None, None))
    ELSE IF IntOf(ss[1].max_arrears) < 0
    THEN Out(NoConfig(w), ss,
             Page("exception", "min_value above max_value", None, None, None))
    ELSE main_adjusted_balance(
             IF pg.arrears_input = Some(IntOf(ss[1].max_arrears)) THEN w
             ELSE [w EXCEPT !.preferred_arrears = 0],
             ss, pg, clicked)

\* "Compute ages", "Calculate max arrears", "Store values in session state"
main_store_parameters(w, pg, clicked, validated_salary) ==
    main_preferred_arrears(w,
        Some([ current_age      |-> datedif_Y(w.dob, w.programming_date),
               retirement_age   |-> datedif_Y(w.dob, w.retirement_date),
               max_arrears      |-> main_max_arrears(w.sector, w.retirement_date,
                                                     w.programming_date),
               validated_salary |-> validated_salary,
               rsa_balance      |-> w.rsa_balance,
               dob_dt           |-> w.dob,
               retirement_dt    |-> w.retirement_date,
               programming_dt   |-> w.programming_date,
               gender           |-> w.gender,
               frequency        |-> w.frequency,
               sector           |-> w.sector ]),
        pg, clicked)

\* "Initial calculation button to show parameters": either check that fails
\* returns from main
main_get_parameters(w, ss, pg, clicked, validated_salary) ==
    IF clicked # "get_parameters" THEN main_preferred_arrears(w, ss, pg, clicked)
    ELSE IF validated_salary = None
    THEN Out(NoConfig(w), ss,
             Page("salary_error", "Please provide valid salary information",
                  None, None, None))
    ELSE IF w.rsa_balance <= 0
    THEN Out(NoConfig(w), ss,
             Page("balance_error", "Please provide a valid RSA balance",
                  None, None, None))
    ELSE main_store_parameters(w, pg, clicked, validated_salary[1])

\* "Salary determination": which salary inputs the run shows
main_uses_salary_structure(w) ==
    w.sector = "PU" /\ DateGE(w.retirement_date, cutoff_date)

\* "Salary determination": the inputs of the other branch are not reached
main_salary_inputs(w) ==
    IF main_uses_salary_structure(w)
    THEN [w EXCEPT !.monthly_salary = 0]
    ELSE [w EXCEPT !.salary_structure = "", !.grade_level = "", !.step = ""]

\* "Salary determination": validated_salary, <<salary>> or None
main_validated_salary(w) ==
    IF main_uses_salary_structure(w)
    THEN IF w.salary_structure # "" /\ w.grade_level # "" /\ w.step # ""
         THEN get_annual_salary(w.salary_structure, w.grade_level, w.step,
                                SalaryStructureCsv)
         ELSE None
    ELSE IF w.monthly_salary > 0 THEN Some(w.monthly_salary * 12) ELSE None

\* One run of main
main(w, ss, pg, clicked) ==
    main_get_parameters(main_salary_inputs(w), ss, pg, clicked,
                        main_validated_salary(main_salary_inputs(w)))

\* What the user can enter in the widgets of "Client Information" and
\* "Salary Information"
GenderInputs == {"M"}

SectorInputs == {"PU", "PR"}

DobInputs == {Date(1964, 8, 15), Date(1962, 6, 15)}

RetirementInputs == {Date(2024, 9, 1)}

ProgrammingInputs == {Date(2025, 3, 17), Date(2024, 3, 1)}

RsaBalanceInputs == Amounts({0, 1000})

FrequencyInputs == {12}

MonthlySalaryInputs == Amounts({0, 15})

\* The three text inputs of the salary structure: left empty, or a row of
\* the table
StructureInputs ==
    { [salary_structure |-> "", grade_level |-> "", step |-> ""],
      [salary_structure |-> "conposs", grade_level |-> "08", step |-> "05"] }

Widgets ==
    { [ gender |-> g, sector |-> sec, dob |-> dob,
        retirement_date |-> ret, programming_date |-> prog,
        rsa_balance |-> bal, frequency |-> f, monthly_salary |-> sal,
        salary_structure |-> str.salary_structure,
        grade_level |-> str.grade_level, step |-> str.step,
        preferred_arrears |-> 0, negotiated_lumpsum |-> 0 ] :
        g \in GenderInputs, sec \in SectorInputs, dob \in DobInputs,
        ret \in RetirementInputs, prog \in ProgrammingInputs,
        bal \in RsaBalanceInputs, f \in FrequencyInputs,
        sal \in MonthlySalaryInputs, str \in StructureInputs }

\* The widgets after the edit of one input
InputEdits(w) ==
    { [w EXCEPT !.gender = v] : v \in GenderInputs }
    \cup { [w EXCEPT !.sector = v] : v \in SectorInputs }
    \cup { [w EXCEPT !.dob = v] : v \in DobInputs }
    \cup { [w EXCEPT !.retirement_date = v] : v \in RetirementInputs }
    \cup { [w EXCEPT !.programming_date = v] : v \in ProgrammingInputs }
    \cup { [w EXCEPT !.rsa_balance = v] : v \in RsaBalanceInputs }
    \cup { [w EXCEPT !.frequency = v] : v \in FrequencyInputs }
    \cup { [w EXCEPT !.monthly_salary = v] : v \in MonthlySalaryInputs }
    \cup { [w EXCEPT !.salary_structure = v.salary_structure,
                     !.grade_level = v.grade_level, !.step = v.step] :
             v \in StructureInputs }

\* The user edits an input of the client or of the salary
main_edit_input ==
    /\ \E w \in InputEdits(streamlit.widgets) \ {streamlit.widgets} :
          streamlit' = main(w, streamlit.session_state, streamlit.page, "none")
    /\ UNCHANGED <<calculator, df, results, final_df, batch_pc, call>>

\* The user clicks "Get Calculation Parameters"
main_click_get_parameters ==
    /\ streamlit' = main(streamlit.widgets, streamlit.session_state,
                         streamlit.page, "get_parameters")
    /\ UNCHANGED <<calculator, df, results, final_df, batch_pc, call>>

\* The user edits "Preferred Arrears", within the bounds of the input
main_edit_preferred_arrears ==
    /\ streamlit.page.arrears_input # None
    /\ \E v \in {0, 3, streamlit.page.arrears_input[1]} :
          /\ v <= streamlit.page.arrears_input[1]
          /\ v # streamlit.widgets.preferred_arrears
          /\ streamlit' = main([streamlit.widgets EXCEPT !.preferred_arrears = v],
                               streamlit.session_state, streamlit.page, "none")
    /\ UNCHANGED <<calculator, df, results, final_df, batch_pc, call>>

\* The user edits "Negotiated Lumpsum", within the bounds of the input
main_edit_negotiated_lumpsum ==
    /\ streamlit.page.lumpsum_input # None
    /\ \E v \in {0, streamlit.page.lumpsum_input[1] \div 2,
                 streamlit.page.lumpsum_input[1]} :
          /\ v # streamlit.widgets.negotiated_lumpsum
          /\ streamlit' = main([streamlit.widgets EXCEPT !.negotiated_lumpsum = v],
                               streamlit.session_state, streamlit.page, "none")
    /\ UNCHANGED <<calculator, df, results, final_df, batch_pc, call>>

\* The user clicks "Calculate Final Pension", which a run shows after the two
\* number inputs
main_click_calculate_final ==
    /\ streamlit.page.lumpsum_input # None
    /\ streamlit' = main(streamlit.widgets, streamlit.session_state,
                         streamlit.page, "calculate_final")
    /\ UNCHANGED <<calculator, df, results, final_df, batch_pc, call>>

\* The page is opened and the client's data entered; no button clicked yet
InitMain ==
    /\ calculator = PensionCalculator
    /\ df = <<>>
    /\ results = <<>>
    /\ final_df = <<>>
    /\ batch_pc = "idle"
    /\ InitCall
    /\ streamlit \in { main(w, None, NoSession.page, "none") : w \in Widgets }

NextMain ==
    \/ main_edit_input
    \/ main_click_get_parameters
    \/ main_edit_preferred_arrears
    \/ main_edit_negotiated_lumpsum
    \/ main_click_calculate_final

SpecMain == InitMain /\ [][NextMain]_vars

-----------------------------------------------------------------------------
(* The claims *)

\* The computed fields of a result dictionary
OutputFields(r) ==
    << r.current_age, r.retirement_age, r.validated_salary,
       r.max_arrears_months, r.final_lumpsum, r.final_monthly_pension,
       r.pension_arrears, r.total_benefit, r.annuity_premium >>

AllPopulated(r) == \A k \in 1..9 : OutputFields(r)[k] # None

AllEmpty(r) == \A k \in 1..9 : OutputFields(r)[k] = None

\* C1: every result of the per-client calculation is either SUCCESS with an
\* empty error message and every output field populated, or ERROR with a
\* message and every output field None; no result has only some fields.
C1_SuccessOrError ==
    \A i \in 1..Len(results) :
        \/ /\ results[i].status = "SUCCESS"
           /\ results[i].error_message = ""
           /\ AllPopulated(results[i])
        \/ /\ results[i].status = "ERROR"
           /\ results[i].error_message # ""
           /\ AllEmpty(results[i])

\* C1 witness: a client that passed date parsing, salary resolution and the
\* arrears steps and failed at the annuity factor lookup
C1_Witness ==
    /\ Len(results) = 1
    /\ results[1].status = "ERROR"
    /\ results[1].error_message = "Age not found in selected table."
    /\ AllEmpty(results[1])

\* C2: a batch of N records gives N results in input order; each result is
\* what the per-client calculation gives for that record alone with the
\* lookup tables as loaded, whatever the other records are and whether or not
\* they fail; a failing record is an ERROR row and the batch goes on.
C2_BatchIndependent ==
    /\ calculator = PensionCalculator
    /\ Len(results) <= Len(df)
    /\ \A i \in 1..Len(results) :
           results[i] = PC_process_single_client(PensionCalculator, df[i])
    /\ batch_pc = "done" =>
           /\ Len(results) = Len(df)
           /\ Len(final_df) = Len(df)
           /\ \A i \in 1..Len(df) :
                  /\ final_df[i].input = df[i]
                  /\ final_df[i].output = results[i]

\* C2 witness: a finished batch whose first record failed and whose second
\* record succeeded
C2_Witness ==
    /\ batch_pc = "done"
    /\ Len(results) = 2
    /\ results[1].status = "ERROR"
    /\ results[2].status = "SUCCESS"

BelowMinimum == "Error: Lumpsum is less than the minimum allowed."

ExceedsMax == "Error: Lumpsum exceeds the Maximum Lumpsum limit."

ExceedsRegulatory == "Error: Lumpsum exceeds the Regulatory Lumpsum limit."

\* C3: compute_final_monthly_pension fails with BelowMinimum exactly when
\* chosen < 0; otherwise with ExceedsMax exactly when max > regulatory and
\* chosen > max; otherwise with ExceedsRegulatory exactly when
\* max < regulatory and chosen > regulatory; in every other case it returns
\* -pmt(rate, nper, adjusted - chosen, 0, 1).
C3_FinalPensionOutcomes ==
    call.fn = "compute_final_monthly_pension" =>
        LET a == call.args
            below == a.final_lumpsum < 0
            over_max == /\ a.max_lumpsum > a.regulatory_lumpsum
                        /\ a.final_lumpsum > a.max_lumpsum
            over_reg == /\ a.max_lumpsum < a.regulatory_lumpsum
                        /\ a.final_lumpsum > a.regulatory_lumpsum
        IN  /\ (call.ret.err = BelowMinimum) <=> below
            /\ (call.ret.err = ExceedsMax) <=> (~below /\ over_max)
            /\ (call.ret.err = ExceedsRegulatory)
                   <=> (~below /\ ~over_max /\ over_reg)
            /\ call.ret.ok <=> ~(below \/ over_max \/ over_reg)
            /\ call.ret.ok =>
                   call.ret.val
                     = -pmt(main_monthly_rate, a.nper,
                            a.new_adjusted_balance - a.final_lumpsum, 0, 1)

\* C3 witness: a lump sum above the regulatory limit, which is the larger
\* limit, is refused
C3_Witness ==
    /\ call.fn = "compute_final_monthly_pension"
    /\ call.args.max_lumpsum < call.args.regulatory_lumpsum
    /\ call.args.final_lumpsum > call.args.regulatory_lumpsum
    /\ call.ret.err = ExceedsRegulatory

\* C4: determine_lumpsum returns adjusted when max > adjusted, otherwise max
\* when max > regulatory, otherwise regulatory; the result is one of the three
\* arguments; the interactive and the batch copy agree.
C4_DetermineLumpsum ==
    call.fn = "determine_lumpsum" =>
        LET a == call.args
        IN  /\ a.max_lumpsum > a.adjusted_rsa => call.ret = a.adjusted_rsa
            /\ (a.max_lumpsum <= a.adjusted_rsa /\ a.max_lumpsum > a.regulatory)
                   => call.ret = a.max_lumpsum
            /\ (a.max_lumpsum <= a.adjusted_rsa /\ a.max_lumpsum <= a.regulatory)
                   => call.ret = a.regulatory
            /\ call.ret \in {a.max_lumpsum, a.adjusted_rsa, a.regulatory}
            /\ call.ret_batch = call.ret

\* C4 witness: the spec's example determineLumpSum(100, 80, 50) = 80 in
\* kind: max above adjusted and above regulatory returns adjusted
C4_Witness ==
    /\ call.fn = "determine_lumpsum"
    /\ call.args.max_lumpsum > call.args.adjusted_rsa
    /\ call.args.adjusted_rsa > call.args.regulatory
    /\ call.args.regulatory > 0
    /\ call.ret = call.args.adjusted_rsa
    /\ call.ret_batch = call.args.adjusted_rsa

\* C5: a client whose RSA balance is zero or negative never reaches a SUCCESS
\* result; the calculation of that client ends in an error.
C5_NonPositiveBalanceFails ==
    \A i \in 1..Len(results) :
        (df[i].rsa_balance.kind = "num" /\ df[i].rsa_balance.n <= 0)
            => results[i].status = "ERROR"

\* Whether a sheet row takes the declared-salary branch of the salary
\* resolution: its sector is not PU, or it retired before the cutoff
DeclaredSalaryBranch(row) ==
    /\ to_datetime(row.retirement_date).ok
    /\ ~(/\ Upper(row.sector) = "PU"
         /\ DateGE(to_datetime(row.retirement_date).val, Date(2024, 9, 1)))

\* C6: on the declared-salary branch a positive declared salary resolves to
\* twelve times itself, and a zero or negative declared salary resolves to no
\* salary, so that the calculation of that client ends in an error.
C6_DeclaredSalary ==
    \A i \in 1..Len(results) :
        (DeclaredSalaryBranch(df[i]) /\ df[i].monthly_salary.kind = "num") =>
            /\ (df[i].monthly_salary.n > 0 /\ results[i].status = "SUCCESS")
                   => results[i].validated_salary
                        = Some(12 * ToFloat(df[i].monthly_salary.n))
            /\ df[i].monthly_salary.n <= 0 => results[i].status = "ERROR"

InvalidCombination == "Invalid combination of gender and frequency."

AgeNotFound == "Age not found in selected table."

\* The annuity factor table of a gender and a payment frequency
TableFor(gender, frequency) ==
    CASE gender = "M" /\ frequency = 4  -> Male4Csv
      [] gender = "M" /\ frequency = 12 -> Male12Csv
      [] gender = "F" /\ frequency = 4  -> Female4Csv
      [] gender = "F" /\ frequency = 12 -> Female12Csv
      [] OTHER -> <<>>

\* The factors a table stores at an age
FactorsAt(table, age) ==
    { table[k].ax : k \in { j \in DOMAIN table : table[j].age = age } }

\* What lookupFactor is to return for a gender read as it stands
LookupContract(ret, gender, frequency, age) ==
    /\ (ret.err = InvalidCombination)
           <=> ~(gender \in {"M", "F"} /\ frequency \in {4, 12})
    /\ (ret.err = AgeNotFound)
           <=> /\ gender \in {"M", "F"} /\ frequency \in {4, 12}
               /\ FactorsAt(TableFor(gender, frequency), age) = {}
    /\ ret.ok
           <=> /\ gender \in {"M", "F"} /\ frequency \in {4, 12}
               /\ FactorsAt(TableFor(gender, frequency), age) # {}
    /\ ret.ok => ret.val \in FactorsAt(TableFor(gender, frequency), age)

\* C7 as amended: the interactive lookup_ax matches the gender exactly and
\* the batch lookup_ax matches it whatever its letter case; both match the
\* frequency exactly in {4, 12} and fail with InvalidCombination for any other
\* pairing; within the table each returns the factor stored at exactly the
\* requested age and fails with AgeNotFound when the age is absent, never
\* returning the factor of another age.
C7_LookupAmended ==
    call.fn = "lookup_ax" =>
        /\ LookupContract(call.ret, call.args.gender,
                          call.args.frequency, call.args.retirement_age)
        /\ LookupContract(call.ret_batch, Upper(call.args.gender),
                          call.args.frequency, call.args.retirement_age)

\* C7 as stated: both copies of lookup_ax select a table only by exact match
\* of gender in {M, F} and frequency in {4, 12}, fail with InvalidCombination
\* otherwise, and return the factor of exactly the requested age or fail with
\* AgeNotFound.
C7_LookupExact ==
    call.fn = "lookup_ax" =>
        /\ LookupContract(call.ret, call.args.gender,
                          call.args.frequency, call.args.retirement_age)
        /\ LookupContract(call.ret_batch, call.args.gender,
                          call.args.frequency, call.args.retirement_age)

\* C7 witness: a lower-case gender, refused by the interactive copy and
\* matched by the batch copy, at an age the female quarterly table holds
C7_Witness ==
    /\ call.fn = "lookup_ax"
    /\ call.args.gender = "f"
    /\ call.args.frequency = 4
    /\ call.args.retirement_age = 60
    /\ call.ret.err = InvalidCombination
    /\ call.ret_batch.ok
    /\ call.ret_batch.val \in FactorsAt(Female4Csv, 60)

\* The whole months from one date to a later or earlier one, a rest of more
\* than half a month counted as a month
ElapsedMonths(start_date, end_date) ==
    LET delta == relativedelta(end_date, start_date)
    IN  12 * delta.years + delta.months
          + (IF delta.days >= 16 THEN 1 ELSE IF delta.days <= -16 THEN -1 ELSE 0)

\* C8: for sector PR the maximum arrears months never exceed 6, whatever the
\* two dates; for sector PU there is no cap and the value is the elapsed
\* months rounded to a whole month; the two copies agree.
C8_MaxArrears ==
    call.fn = "max_arrears" =>
        /\ call.args.sector = "PR" =>
               /\ call.ret <= ToFloat(6)
               /\ call.ret = Min2(ToFloat(6),
                                  ToFloat(ElapsedMonths(call.args.retirement_date,
                                                        call.args.programming_date)))
        /\ call.args.sector = "PU" =>
               call.ret = ToFloat(ElapsedMonths(call.args.retirement_date,
                                                call.args.programming_date))
        /\ call.ret_batch = call.ret

\* C8 witness: a PR client programmed years after retirement gets 6 months
C8_Witness ==
    /\ call.fn = "max_arrears"
    /\ call.args.sector = "PR"
    /\ ElapsedMonths(call.args.retirement_date, call.args.programming_date) > 6
    /\ call.ret = ToFloat(6)
    /\ call.ret_batch = ToFloat(6)

ExceedsMaxArrears == "Error: Negotiated months exceed the maximum allowable arrears."

\* C9: get_final_arrears_months fails with ExceedsMaxArrears exactly when
\* negotiated > max allowed; otherwise it returns negotiated, so a returned
\* value never exceeds max allowed; (10, 8) fails, (8, 10) gives 8 and
\* (10, 10) gives 10.
C9_FinalArrearsMonths ==
    call.fn = "get_final_arrears_months" =>
        LET a == call.args
        IN  /\ (call.ret.err = ExceedsMaxArrears)
                   <=> a.negotiated_months > a.max_allowable_months
            /\ call.ret.ok <=> a.negotiated_months <= a.max_allowable_months
            /\ call.ret.ok =>
                   /\ call.ret.val = a.negotiated_months
                   /\ call.ret.val <= a.max_allowable_months
            /\ (a.negotiated_months = ToFloat(10)
                  /\ a.max_allowable_months = ToFloat(8)) => ~call.ret.ok
            /\ (a.negotiated_months = ToFloat(8)
                  /\ a.max_allowable_months = ToFloat(10))
                   => call.ret = Ok(ToFloat(8))
            /\ (a.negotiated_months = ToFloat(10)
                  /\ a.max_allowable_months = ToFloat(10))
                   => call.ret = Ok(ToFloat(10))

\* C9 witness: the equal case, get_final_arrears_months(10, 10) = 10
C9_Witness ==
    /\ call.fn = "get_final_arrears_months"
    /\ call.args.negotiated_months = ToFloat(10)
    /\ call.args.max_allowable_months = ToFloat(10)
    /\ call.ret = Ok(ToFloat(10))

\* C10: calculate_pension_arrears is (months / 3) * pension at frequency 4
\* and months * pension at frequency 12, in both copies;
\* (4, 6, 1000) gives 2000 and (12, 6, 1000) gives 6000.
C10_ArrearsAmount ==
    call.fn = "calculate_pension_arrears" =>
        LET a == call.args
        IN  /\ a.frequency = 4 =>
                   call.ret = FMul(FDiv(a.final_arrears_months, ToFloat(3)),
                                   a.final_monthly_pension)
            /\ a.frequency = 12 =>
                   call.ret = FMul(a.final_arrears_months, a.final_monthly_pension)
            /\ call.ret_batch = call.ret
            /\ (a.frequency = 4 /\ a.final_arrears_months = ToFloat(6)
                  /\ a.final_monthly_pension = ToFloat(1000))
                   => call.ret = ToFloat(2000)
            /\ (a.frequency = 12 /\ a.final_arrears_months = ToFloat(6)
                  /\ a.final_monthly_pension = ToFloat(1000))
                   => call.ret = ToFloat(6000)

\* C10 witness: the quarterly example, 6 months of 1000 are 2000
C10_Witness ==
    /\ call.fn = "calculate_pension_arrears"
    /\ call.args.frequency = 4
    /\ call.args.final_arrears_months = ToFloat(6)
    /\ call.args.final_monthly_pension = ToFloat(1000)
    /\ call.ret = ToFloat(2000)
    /\ call.ret_batch = ToFloat(2000)

\* C11: in every successful result the total benefit is the final lump sum
\* plus the pension arrears, and the annuity premium is the RSA balance as
\* entered (not discounted) minus the total benefit minus one final monthly
\* pension; so lump sum + arrears + one pension + premium is the RSA balance.
C11_TotalsIdentity ==
    \A i \in 1..Len(results) :
        results[i].status = "SUCCESS" =>
            LET r   == results[i]
                rsa == ToFloat(df[i].rsa_balance.n)
            IN  /\ r.total_benefit[1] = r.final_lumpsum[1] + r.pension_arrears[1]
                /\ r.annuity_premium[1]
                     = rsa - r.total_benefit[1] - r.final_monthly_pension[1]
                /\ r.final_lumpsum[1] + r.pension_arrears[1]
                     + r.final_monthly_pension[1] + r.annuity_premium[1] = rsa

\* C11 witness: a successful client with arrears months, so that the balance
\* was discounted, and with a pension, arrears and a premium to add up
C11_Witness ==
    /\ Len(results) = 1
    /\ results[1].status = "SUCCESS"
    /\ results[1].max_arrears_months[1] > 0
    /\ results[1].final_monthly_pension[1] > 0
    /\ results[1].pension_arrears[1] > 0
    /\ results[1].annuity_premium[1] > 0
    /\ results[1].total_benefit[1] > results[1].final_lumpsum[1]

C14_BatchLumpsumValid ==
    call.fn = "batch_final_lumpsum" =>
        /\ call.ret.ok
        /\ call.ret.err \notin {BelowMinimum, ExceedsMax, ExceedsRegulatory}
        /\ call.ret.val = call.ret_batch

\* C14 witness: the recommended lump sum is the max lump sum, which lies
\* between the regulatory lump sum and the adjusted balance, and is accepted
C14_Witness ==
    /\ call.fn = "batch_final_lumpsum"
    /\ call.args.max_lumpsum > call.args.regulatory_lumpsum
    /\ call.args.max_lumpsum < call.args.new_adjusted_balance
    /\ call.final_lumpsum = call.args.max_lumpsum
    /\ call.ret.ok
    /\ call.ret.val > 0

\* The adjusted balance of an RSA balance and a number of arrears months
AdjustedBalance(rsa_balance, arrears_months) ==
    FMul(rsa_balance,
         PowF(Scale + DISCOUNT_RATE, -FDiv(arrears_months, ToFloat(12))))

\* C15: in every successful result of a client with a positive RSA balance
\* the final lump sum does not exceed the adjusted balance, so the residual
\* is not negative and the final monthly pension is not negative; also when
\* the lump sum is the regulatory one, 25% of the balance as entered, for a
\* public-sector client with a long arrears period.
C15_LumpsumWithinAdjusted ==
    \A i \in 1..Len(results) :
        (results[i].status = "SUCCESS" /\ df[i].rsa_balance.n > 0) =>
            /\ results[i].final_lumpsum[1]
                 <= AdjustedBalance(ToFloat(df[i].rsa_balance.n),
                                    results[i].max_arrears_months[1])
            /\ results[i].final_monthly_pension[1] >= 0

\* C17: in every successful result the maximum arrears months, which are the
\* arrears months used, are not negative, and so the adjusted balance does
\* not exceed the RSA balance, whatever the retirement and the programming
\* date, the programming date before the retirement date included.
C17_ArrearsNonNegative ==
    \A i \in 1..Len(results) :
        (results[i].status = "SUCCESS" /\ df[i].rsa_balance.n > 0) =>
            /\ results[i].max_arrears_months[1] >= 0
            /\ AdjustedBalance(ToFloat(df[i].rsa_balance.n),
                               results[i].max_arrears_months[1])
                 <= ToFloat(df[i].rsa_balance.n)

\* C16: whenever compute_final_monthly_pension accepts a lump sum, the lump
\* sum is at most the larger of max_lumpsum and regulatory_lumpsum, whether
\* max_lumpsum is above, below or equal to regulatory_lumpsum.
C16_AcceptedWithinLimits ==
    (call.fn = "compute_final_monthly_pension" /\ call.ret.ok) =>
        call.args.final_lumpsum
          <= Max2(call.args.max_lumpsum, call.args.regulatory_lumpsum)

\* The parameters st.session_state holds are those of the inputs entered
ParametersOfInputs(ss, w) ==
    /\ ss.gender = w.gender
    /\ ss.sector = w.sector
    /\ ss.frequency = w.frequency
    /\ ss.rsa_balance = w.rsa_balance
    /\ ss.dob_dt = w.dob
    /\ ss.retirement_dt = w.retirement_date
    /\ ss.programming_dt = w.programming_date
    /\ Some(ss.validated_salary) = main_validated_salary(w)

\* C12: in the interactive calculator, after any sequence of edits and
\* clicks, a final result is only ever computed from parameters derived from
\* the inputs currently entered: when "Get Calculation Parameters" has failed
\* for them, or has not been clicked for them, no result comes from the
\* values an earlier successful click stored.
C12_ResultFromCurrentInputs ==
    streamlit.page.shown = "results" =>
        /\ streamlit.widgets.rsa_balance > 0
        /\ main_validated_salary(streamlit.widgets) # None
        /\ ParametersOfInputs(streamlit.session_state[1], streamlit.widgets)

=============================================================================
